---- MODULE Spec2Model ----
(***************************************************************************)
(* Model of DijkstraVisualizer (finalCode_termProject.py): the step-through *)
(* engine behind the Start / Step / Reset buttons and the algorithm radio   *)
(* buttons.  The engine fields are the variables; every button handler is   *)
(* one action.  The canvas drawing of _redraw is presentation and is kept   *)
(* only as far as it computes something: the highlighted path.              *)
(***************************************************************************)
EXTENDS Integers, Sequences, FiniteSets, TLC

VARIABLES graph, start_node, end_node, algo_choice,
          dist, prev, visited, unvisited, pq, current_node,
          is_running, is_finished, start_time,
          status_label, timing_label, step_button, shown_path,
          steps, last_op

vars == <<graph, start_node, end_node, algo_choice,
          dist, prev, visited, unvisited, pq, current_node,
          is_running, is_finished, start_time,
          status_label, timing_label, step_button, shown_path,
          steps, last_op>>

(* ---------------------------- bounds ----------------------------------- *)
\* generated graphs have at most MaxNodes nodes
MaxNodes == 3
\* generated edge weights range over 0..MaxWeight
MaxWeight == 1
\* time.perf_counter() readings range over 1..MaxTime
MaxTime == 2

(* ------------------------- values ------------------------------------- *)
\* float("inf"): an encoding only; Less and Add give it the IEEE meaning
Inf == 999999

\* Python's None (prev entries, current_node, the default of min)
None == "None"

\* node identifiers in Python string order ("A" < "B" < ...)
NodeNames == <<"A", "B", "C", "D", "E", "F", "G">>

Rank(n) == CHOOSE i \in 1..Len(NodeNames) : NodeNames[i] = n

\* a < b on floats where either side may be float("inf")
Less(a, b) == IF a = Inf THEN FALSE ELSE IF b = Inf THEN TRUE ELSE a < b

\* a + w on floats where a may be float("inf")
Add(a, w) == IF a = Inf THEN Inf ELSE a + w

\* the tuple comparison turned round, as in a max-heap
EntryGreater(x, y) ==
    \/ Less(y[1], x[1])
    \/ x[1] = y[1] /\ Rank(y[2]) < Rank(x[2])

\* Python tuple comparison (d1, n1) < (d2, n2) of heap entries
EntryLess(x, y) ==
    \/ Less(x[1], y[1])
    \/ x[1] = y[1] /\ Rank(x[2]) < Rank(y[2])

(* ------------------------- graphs -------------------------------------- *)
\* self.graph of __init__
DefaultGraph ==
    [n \in {"A", "B", "C", "D", "E", "F", "G"} |->
        CASE n = "A" -> << <<"B", 2>>, <<"C", 5>> >>
          [] n = "B" -> << <<"A", 2>>, <<"C", 6>>, <<"D", 1>> >>
          [] n = "C" -> << <<"A", 5>>, <<"B", 6>>, <<"E", 3>> >>
          [] n = "D" -> << <<"B", 1>>, <<"E", 1>>, <<"F", 4>> >>
          [] n = "E" -> << <<"C", 3>>, <<"D", 1>>, <<"G", 2>> >>
          [] n = "F" -> << <<"D", 4>>, <<"G", 1>> >>
          [] n = "G" -> << <<"E", 2>>, <<"F", 1>> >>]

Nodes(g) == DOMAIN g

\* unordered pairs i < j of the first k node ranks
Pairs(k) == {p \in (1..k) \X (1..k) : p[1] < p[2]}

Pair(i, j) == IF i < j THEN <<i, j>> ELSE <<j, i>>

\* adjacency list of node i (neighbours j..k), symmetric by construction
RECURSIVE AdjFrom(_, _, _, _, _)
AdjFrom(i, j, k, E, w) ==
    IF j > k THEN <<>>
    ELSE (IF j # i /\ Pair(i, j) \in E
          THEN << <<NodeNames[j], w[Pair(i, j)]>> >>
          ELSE <<>>) \o AdjFrom(i, j + 1, k, E, w)

MakeGraph(k, E, w) ==
    [n \in {NodeNames[i] : i \in 1..k} |-> AdjFrom(Rank(n), 1, k, E, w)]

\* every undirected graph on the first k <= MaxNodes names, weights 0..MaxWeight
GeneratedGraphs ==
    UNION {UNION {{MakeGraph(k, E, w) : w \in [E -> 0..MaxWeight]} :
                  E \in SUBSET Pairs(k)} : k \in 1..MaxNodes}

\* the built-in graph with every edge to the end node "G" removed
NoGGraph ==
    [n \in Nodes(DefaultGraph) |->
        IF n = "G" THEN <<>>
        ELSE SelectSeq(DefaultGraph[n], LAMBDA e : e[1] # "G")]

\* the runs checked: the built-in graph, whole and without G's edges, from
\* every start to every end; every generated graph from its first node
\* (start_node is the first key of the graph in __init__) to every end
Configs ==
    {<<g, s, t>> : g \in {DefaultGraph, NoGGraph},
                   s \in Nodes(DefaultGraph), t \in Nodes(DefaultGraph)}
    \cup UNION {{<<g, "A", t>> : t \in Nodes(g)} : g \in GeneratedGraphs}

(* ------------------------- heapq --------------------------------------- *)
\* list.append in place of heapq.heappush
heappushAppend(q, item) == q \o <<item>>

\* heapq.heappush: the heap is kept as its sorted view (sorted(self.pq)),
\* which is what heappop and pq[0] observe
RECURSIVE heappush(_, _)
heappush(q, item) ==
    IF q = <<>> THEN <<item>>
    ELSE IF EntryLess(item, Head(q)) THEN <<item>> \o q
    ELSE <<Head(q)>> \o heappush(Tail(q), item)

\* step without the loop that pops stale entries
DropStaleNone(q, vis) == q

\* while self.pq and self.pq[0][1] in self.visited: heapq.heappop(self.pq)
RECURSIVE DropStale(_, _)
DropStale(q, vis) ==
    IF q # <<>> /\ Head(q)[2] \in vis THEN DropStale(Tail(q), vis) ELSE q

(* ------------------------- step, on an engine record ------------------- *)
\* the engine fields step reads and writes; fin records a call of _finish
Engine ==
    [dist |-> dist, prev |-> prev, visited |-> visited, unvisited |-> unvisited,
     pq |-> pq, current_node |-> current_node, fin |-> FALSE]

\* RelaxEdge with new_dist = weight, the distance of u left out
RelaxEdgeNoBase(e, u, dist_u, neighbor, weight, heap) ==
    IF neighbor \in e.visited THEN e
    ELSE LET new_dist == weight IN
         IF Less(new_dist, e.dist[neighbor])
         THEN [e EXCEPT !.dist[neighbor] = new_dist,
                        !.prev[neighbor] = u,
                        !.pq = IF heap THEN heappush(@, <<new_dist, neighbor>>) ELSE @]
         ELSE e

\* RelaxEdge without the "if new_dist < self.dist[neighbor]" test
RelaxEdgeAlways(e, u, dist_u, neighbor, weight, heap) ==
    IF neighbor \in e.visited THEN e
    ELSE LET new_dist == Add(dist_u, weight) IN
         [e EXCEPT !.dist[neighbor] = new_dist,
                   !.prev[neighbor] = u,
                   !.pq = IF heap THEN heappush(@, <<new_dist, neighbor>>) ELSE @]

\* RelaxEdge without "self.prev[neighbor] = u"
RelaxEdgeNoPrev(e, u, dist_u, neighbor, weight, heap) ==
    IF neighbor \in e.visited THEN e
    ELSE LET new_dist == Add(dist_u, weight) IN
         IF Less(new_dist, e.dist[neighbor])
         THEN [e EXCEPT !.dist[neighbor] = new_dist,
                        !.pq = IF heap THEN heappush(@, <<new_dist, neighbor>>) ELSE @]
         ELSE e

\* RelaxEdge with "<=" for "<"
RelaxEdgeLeq(e, u, dist_u, neighbor, weight, heap) ==
    IF neighbor \in e.visited THEN e
    ELSE LET new_dist == Add(dist_u, weight) IN
         IF ~Less(e.dist[neighbor], new_dist)
         THEN [e EXCEPT !.dist[neighbor] = new_dist,
                        !.prev[neighbor] = u,
                        !.pq = IF heap THEN heappush(@, <<new_dist, neighbor>>) ELSE @]
         ELSE e

\* RelaxEdge that records a predecessor only where there is none yet
RelaxEdgeStalePrev(e, u, dist_u, neighbor, weight, heap) ==
    IF neighbor \in e.visited THEN e
    ELSE LET new_dist == Add(dist_u, weight) IN
         IF Less(new_dist, e.dist[neighbor])
         THEN [e EXCEPT !.dist[neighbor] = new_dist,
                        !.prev[neighbor] = IF @ = None THEN u ELSE @,
                        !.pq = IF heap THEN heappush(@, <<new_dist, neighbor>>) ELSE @]
         ELSE e

\* the body of the relaxation loop for one (neighbor, weight) entry
RelaxEdge(e, u, dist_u, neighbor, weight, heap) ==
    IF neighbor \in e.visited THEN e
    ELSE LET new_dist == Add(dist_u, weight) IN
         IF Less(new_dist, e.dist[neighbor])
         THEN [e EXCEPT !.dist[neighbor] = new_dist,
                        !.prev[neighbor] = u,
                        !.pq = IF heap THEN heappush(@, <<new_dist, neighbor>>) ELSE @]
         ELSE e

\* for neighbor, weight in self.graph[u]: ...
RECURSIVE Relax(_, _, _, _, _)
Relax(edges, u, dist_u, e, heap) ==
    IF edges = <<>> THEN e
    ELSE Relax(Tail(edges), u, dist_u,
               RelaxEdge(e, u, dist_u, Head(edges)[1], Head(edges)[2], heap), heap)

\* Settle without the "if u == self.end_node" exit
SettleNoEndCheck(g, endn, e, u, dist_u, heap) ==
    Relax(g[u], u, dist_u,
          [e EXCEPT !.current_node = u, !.visited = @ \cup {u}], heap)

\* Settle with the relaxation loop run before the "if u == self.end_node" exit
SettleRelaxThenEnd(g, endn, e, u, dist_u, heap) ==
    LET e1 == Relax(g[u], u, dist_u,
                    [e EXCEPT !.current_node = u, !.visited = @ \cup {u}], heap) IN
    IF u = endn THEN [e1 EXCEPT !.fin = TRUE] ELSE e1

\* step from "self.current_node = u" on: settle u, finish at the end node,
\* relax otherwise
Settle(g, endn, e, u, dist_u, heap) ==
    LET e1 == [e EXCEPT !.current_node = u, !.visited = @ \cup {u}] IN
    IF u = endn THEN [e1 EXCEPT !.fin = TRUE]
    ELSE Relax(g[u], u, dist_u, e1, heap)

\* the heap branch of step
StepHeap(g, endn, e) ==
    LET q == DropStale(e.pq, e.visited) IN
    IF q = <<>> THEN [e EXCEPT !.pq = q, !.fin = TRUE]
    ELSE Settle(g, endn, [e EXCEPT !.pq = Tail(q)], Head(q)[2], Head(q)[1], TRUE)

\* min without its key: any element of the set
MinChoicesAny(S, d) == IF S = {} THEN {None} ELSE S

\* min(self.unvisited, key=self.dist.get, default=None): the first minimal
\* element in the iteration order of a set of strings, which is any of them
MinChoices(S, d) ==
    IF S = {} THEN {None}
    ELSE {u \in S : \A v \in S : ~Less(d[v], d[u])}

\* StepLin without self.unvisited.remove(u)
StepLinKeep(g, endn, e, u) ==
    IF u = None \/ e.dist[u] = Inf THEN [e EXCEPT !.fin = TRUE]
    ELSE Settle(g, endn, e, u, e.dist[u], FALSE)

\* StepLin without the test for an infinite minimum
StepLinNoInfCheck(g, endn, e, u) ==
    IF u = None THEN [e EXCEPT !.fin = TRUE]
    ELSE Settle(g, endn, [e EXCEPT !.unvisited = @ \ {u}], u, e.dist[u], FALSE)

\* the linear-scan branch of step, for the element u that min returned
StepLin(g, endn, e, u) ==
    IF u = None \/ e.dist[u] = Inf THEN [e EXCEPT !.fin = TRUE]
    ELSE Settle(g, endn, [e EXCEPT !.unvisited = @ \ {u}], u, e.dist[u], FALSE)

(* ------------------------- path of _redraw ----------------------------- *)
\* while curr: path.append(curr); curr = self.prev[curr]
RECURSIVE WalkBack(_, _)
WalkBack(pr, curr) ==
    IF curr = None THEN <<>> ELSE <<curr>> \o WalkBack(pr, pr[curr])

\* the walk left in end..start order
ReverseNot(s) == s

\* path.reverse()
Reverse(s) == [i \in 1..Len(s) |-> s[Len(s) + 1 - i]]

\* the path _redraw highlights: none unless show_path and dist[end] < inf
PathOf(d, pr, endn, show_path) ==
    IF show_path /\ Less(d[endn], Inf) THEN Reverse(WalkBack(pr, endn)) ELSE <<>>

(* ------------------------- handlers ------------------------------------ *)
\* the engine fields as reset leaves them
ResetDist(g, s) == [n \in Nodes(g) |-> IF n = s THEN 0 ELSE Inf]

ResetPrev(g) == [n \in Nodes(g) |-> None]

Init ==
    /\ \E c \in Configs :
        /\ graph = c[1]
        /\ start_node = c[2]
        /\ end_node = c[3]
    /\ algo_choice = "heap"
    /\ dist = ResetDist(graph, start_node)
    /\ prev = ResetPrev(graph)
    /\ visited = {}
    /\ unvisited = Nodes(graph)
    /\ pq = <<>>
    /\ current_node = None
    /\ is_running = FALSE
    /\ is_finished = FALSE
    /\ start_time = 0
    /\ status_label = "Select an algorithm and press Start"
    /\ timing_label = ""
    /\ step_button = "disabled"
    /\ shown_path = <<>>
    /\ steps = 0
    /\ last_op = "reset"

\* reset without "self.pq = []" and "self.current_node = None"
resetKeepQueue ==
    /\ dist' = ResetDist(graph, start_node)
    /\ prev' = ResetPrev(graph)
    /\ visited' = {}
    /\ unvisited' = Nodes(graph)
    /\ is_running' = FALSE
    /\ is_finished' = FALSE
    /\ start_time' = 0
    /\ status_label' = "Select an algorithm and press Start"
    /\ timing_label' = ""
    /\ step_button' = "disabled"
    /\ shown_path' = <<>>
    /\ steps' = 0
    /\ last_op' = "reset"
    /\ UNCHANGED <<graph, start_node, end_node, algo_choice, pq, current_node>>

reset ==
    /\ dist' = ResetDist(graph, start_node)
    /\ prev' = ResetPrev(graph)
    /\ visited' = {}
    /\ unvisited' = Nodes(graph)
    /\ pq' = <<>>
    /\ current_node' = None
    /\ is_running' = FALSE
    /\ is_finished' = FALSE
    /\ start_time' = 0
    /\ status_label' = "Select an algorithm and press Start"
    /\ timing_label' = ""
    /\ step_button' = "disabled"
    /\ shown_path' = PathOf(dist', prev', end_node, FALSE)
    /\ steps' = 0
    /\ last_op' = "reset"
    /\ UNCHANGED <<graph, start_node, end_node, algo_choice>>

\* start without its guard
StartGuardAlways == TRUE

\* start returns at once when is_running, and does its work otherwise
StartGuard == ~is_running

start ==
    /\ last_op' = "start"
    /\ \E t \in 1..MaxTime :
        IF StartGuard
        THEN /\ pq' = IF algo_choice = "heap"
                      THEN heappush(pq, <<0, start_node>>) ELSE pq
             /\ is_running' = TRUE
             /\ start_time' = t
             /\ step_button' = "normal"
             /\ status_label' = "Running... Press Step to continue."
             /\ shown_path' = PathOf(dist, prev, end_node, FALSE)
             /\ steps' = 0
             /\ UNCHANGED <<dist, prev, visited, unvisited, current_node,
                            is_finished, timing_label>>
        ELSE UNCHANGED <<dist, prev, visited, unvisited, pq, current_node,
                         is_running, is_finished, start_time, status_label,
                         timing_label, step_button, shown_path, steps>>
    /\ UNCHANGED <<graph, start_node, end_node, algo_choice>>

\* step guarded by is_running alone
StepGuardNoFinished == is_running

\* step does its work only when is_running and not is_finished
StepGuard == is_running /\ ~is_finished

\* the result of the work of one step, for the element u min would return
StepResult(u) ==
    IF algo_choice = "heap" THEN StepHeap(graph, end_node, Engine)
    ELSE StepLin(graph, end_node, Engine, u)

step ==
    /\ last_op' = "step"
    /\ IF StepGuard
       THEN \E u \in (IF algo_choice = "heap" THEN {None}
                      ELSE MinChoices(unvisited, dist)) :
            LET r == StepResult(u) IN
            /\ dist' = r.dist
            /\ prev' = r.prev
            /\ visited' = r.visited
            /\ unvisited' = r.unvisited
            /\ pq' = r.pq
            /\ current_node' = r.current_node
            /\ steps' = IF steps <= Cardinality(Nodes(graph)) THEN steps + 1 ELSE steps
            /\ shown_path' = PathOf(r.dist, r.prev, end_node, r.fin)
            /\ IF r.fin
               THEN /\ is_finished' = TRUE
                    /\ is_running' = FALSE
                    /\ timing_label' = "ms"
                    /\ status_label' = IF Less(r.dist[end_node], Inf)
                                       THEN "Path found!"
                                       ELSE "Target is unreachable."
                    /\ step_button' = "disabled"
                    /\ UNCHANGED start_time
               ELSE UNCHANGED <<is_finished, is_running, timing_label,
                                status_label, step_button, start_time>>
       ELSE UNCHANGED <<dist, prev, visited, unvisited, pq, current_node,
                        is_running, is_finished, start_time, status_label,
                        timing_label, step_button, shown_path, steps>>
    /\ UNCHANGED <<graph, start_node, end_node, algo_choice>>

\* a radio button sets algo_choice; here the user picks the algorithm of a
\* run before Start and leaves the selector alone until the next Reset
select_algo ==
    /\ ~is_running /\ ~is_finished
    /\ \E a \in {"heap", "lin"} :
        /\ a # algo_choice
        /\ algo_choice' = a
    /\ last_op' = "select"
    /\ UNCHANGED <<graph, start_node, end_node, dist, prev, visited, unvisited,
                   pq, current_node, is_running, is_finished, start_time,
                   status_label, timing_label, step_button, shown_path, steps>>

Next == reset \/ start \/ step \/ select_algo

Spec == Init /\ [][Next]_vars

\* a radio button sets algo_choice whenever it is clicked: nothing in
\* _setup_ui disables the selector while a run is going
select_algo_any ==
    /\ \E a \in {"heap", "lin"} :
        /\ a # algo_choice
        /\ algo_choice' = a
    /\ last_op' = "select"
    /\ UNCHANGED <<graph, start_node, end_node, dist, prev, visited, unvisited,
                   pq, current_node, is_running, is_finished, start_time,
                   status_label, timing_label, step_button, shown_path, steps>>

NextSwitch == reset \/ start \/ step \/ select_algo_any

\* the program with the selector free to change between any two calls
SpecSwitch == Init /\ [][NextSwitch]_vars

(* ------------------------- reference notions --------------------------- *)
NumNodes == Cardinality(Nodes(graph))

Min(S) == CHOOSE x \in S : \A y \in S : x <= y

\* every adjacency entry of g as <<u, v, weight>>
Edges(g) ==
    UNION {{<<u, g[u][i][1], g[u][i][2]>> : i \in DOMAIN g[u]} : u \in Nodes(g)}

\* one Bellman-Ford round over the entries E
BellmanFordRound(g, E, d) ==
    [v \in Nodes(g) |->
        Min({d[v]} \cup {Add(d[e[1]], e[3]) : e \in {x \in E : x[2] = v}})]

\* shortest-path weights after at most k more rounds from d (Inf when
\* unreachable); a round that changes nothing ends the iteration
RECURSIVE BellmanFord(_, _, _, _)
BellmanFord(g, E, d, k) ==
    IF k = 0 THEN d
    ELSE LET nd == BellmanFordRound(g, E, d) IN
         IF nd = d THEN d ELSE BellmanFord(g, E, nd, k - 1)

TrueDist ==
    LET E == Edges(graph) IN
    IF E = {} THEN ResetDist(graph, start_node)
    ELSE BellmanFord(graph, E, ResetDist(graph, start_node), NumNodes - 1)

\* weight of the edge u - v
EdgeWeight(g, u, v) ==
    g[u][CHOOSE i \in DOMAIN g[u] : g[u][i][1] = v][2]

RECURSIVE PathCost(_, _)
PathCost(g, p) ==
    IF Len(p) <= 1 THEN 0
    ELSE EdgeWeight(g, p[1], p[2]) + PathCost(g, Tail(p))

\* the heap-mode run from the reset state, stepped until _finish
RECURSIVE RunHeap(_, _, _)
RunHeap(g, endn, e) ==
    IF e.fin THEN e ELSE RunHeap(g, endn, StepHeap(g, endn, e))

HeapFinal ==
    RunHeap(graph, end_node,
            [dist |-> ResetDist(graph, start_node), prev |-> ResetPrev(graph),
             visited |-> {}, unvisited |-> Nodes(graph),
             pq |-> heappush(<<>>, <<0, start_node>>),
             current_node |-> None, fin |-> FALSE])

\* the path reconstructed from a predecessor table, start..end
Reconstructed(d, pr) == PathOf(d, pr, end_node, TRUE)

(* ------------------------- C1 ------------------------------------------ *)
\* C1 as stated: whenever a run is Finished (heap or linear scan, any
\* tie-break), its distance table is the one the heap-mode run from the same
\* reset state ends with, and the reconstructed paths cost the same.
C1_IdenticalTables ==
    is_finished =>
        /\ dist = HeapFinal.dist
        /\ PathCost(graph, Reconstructed(dist, prev))
             = PathCost(graph, Reconstructed(HeapFinal.dist, HeapFinal.prev))

\* C1 amended: a Finished run agrees with the heap-mode run from the same
\* reset state on dist[end], on the distance of every node both runs
\* settled, and on the cost of the reconstructed path; the tentative
\* distance of a node left unsettled may differ with the tie-break.
C1_SameSettledDistances ==
    is_finished =>
        /\ dist[end_node] = HeapFinal.dist[end_node]
        /\ \A v \in visited \cap HeapFinal.visited : dist[v] = HeapFinal.dist[v]
        /\ PathCost(graph, Reconstructed(dist, prev))
             = PathCost(graph, Reconstructed(HeapFinal.dist, HeapFinal.prev))
        /\ Less(dist[end_node], Inf) =>
             PathCost(graph, Reconstructed(dist, prev)) = dist[end_node]

\* a linear-scan run has finished with a table other than the heap run's
C1_Witness ==
    /\ is_finished /\ ~is_running
    /\ algo_choice = "lin" /\ last_op = "step"
    /\ dist # HeapFinal.dist
    /\ Len(shown_path) >= 3

(* ------------------------- C2 ------------------------------------------ *)
\* C2: every node in the visited set carries its true shortest-path weight
\* from the start node.
C2_VisitedDistIsShortest ==
    \A v \in visited : dist[v] = TrueDist[v]

\* a linear-scan run in progress with four nodes settled, the last of them
\* via a relaxed edge
C2_Witness ==
    /\ StepGuard /\ algo_choice = "lin"
    /\ Cardinality(visited) >= 4
    /\ current_node # None /\ prev[current_node] # None
    /\ prev[current_node] # start_node

(* ------------------------- C3 ------------------------------------------ *)
ExpectedPath == <<"A", "B", "D", "E", "G">>

BuiltInRun == graph = DefaultGraph /\ start_node = "A" /\ end_node = "G"

\* C3: on the built-in graph from A to G, a Finished run has dist[G] = 6 and
\* the path reconstructed from prev (and highlighted by _finish) is
\* [A, B, D, E, G].
C3_BuiltInShortestPath ==
    (BuiltInRun /\ is_finished) =>
        /\ dist["G"] = 6
        /\ Reconstructed(dist, prev) = ExpectedPath
        /\ ~is_running => shown_path = ExpectedPath

\* the built-in run has just finished in linear-scan mode
C3_Witness ==
    /\ BuiltInRun /\ is_finished /\ ~is_running
    /\ algo_choice = "lin" /\ last_op = "step"
    /\ current_node = "G" /\ status_label = "Path found!"

(* ------------------------- C4 ------------------------------------------ *)
\* C4: across every step other than a reset, no dist[v] increases, and
\* dist[v] and prev[v] of a node already in the visited set do not change.
C4_DistMonotone ==
    [][last_op' # "reset" =>
        \A v \in Nodes(graph) :
            /\ ~Less(dist[v], dist'[v])
            /\ v \in visited => (dist'[v] = dist[v] /\ prev'[v] = prev[v])]_vars

\* a settled neighbour of the start node whose distance was lowered below
\* the weight of its edge from the start node
C4_Witness ==
    \E i \in DOMAIN graph[start_node] :
        LET v == graph[start_node][i][1] IN
        /\ v \in visited /\ v # start_node
        /\ dist[v] < graph[start_node][i][2]
        /\ prev[v] # start_node

C7_UnreachableTarget ==
    (TrueDist[end_node] = Inf) =>
        /\ end_node \notin visited
        /\ dist[end_node] = Inf
        /\ ~Less(dist[end_node], Inf)
        /\ shown_path = <<>>
        /\ (is_finished /\ ~is_running) => status_label = "Target is unreachable."

\* a linear-scan run finished with the end node cut off, three nodes settled
C7_Witness ==
    /\ TrueDist[end_node] = Inf
    /\ is_finished /\ ~is_running /\ last_op = "step"
    /\ algo_choice = "lin" /\ Cardinality(visited) >= 3

(* ------------------------- C8 ------------------------------------------ *)
\* C8: once is_finished, every call but reset leaves the run Finished
\* (is_finished set, is_running clear) and leaves dist, prev, visited and
\* both frontier structures unchanged.
C8_FinishedIsTerminal ==
    [][(is_finished /\ last_op' # "reset") =>
        /\ is_finished' /\ ~is_running'
        /\ UNCHANGED <<dist, prev, visited, unvisited, pq>>]_vars

(* ------------------------- C9 ------------------------------------------ *)
\* C9: a step call made when the engine is Idle or Finished changes none of
\* dist, prev, visited, the frontier structures, current_node and the flags.
C9_StepInactiveNoOp ==
    [][(last_op' = "step" /\ (~is_running \/ is_finished)) =>
        UNCHANGED <<dist, prev, visited, unvisited, pq, current_node,
                    is_running, is_finished, start_time, status_label,
                    timing_label, step_button, shown_path>>]_vars

\* step was called on an Idle engine
C9_Witness ==
    /\ last_op = "step" /\ ~is_running /\ ~is_finished

(* ------------------------- C10 ----------------------------------------- *)
\* C10: a start call made while Running pushes nothing onto pq and changes
\* none of dist, prev, visited, start_time and the flags.
C10_StartWhileRunningNoOp ==
    [][(last_op' = "start" /\ is_running /\ ~is_finished) =>
        /\ is_running' /\ ~is_finished'
        /\ UNCHANGED <<dist, prev, visited, unvisited, pq, current_node,
                       start_time, status_label, timing_label, step_button>>]_vars

\* start was called in the middle of a heap-mode run
C10_Witness ==
    /\ last_op = "start" /\ is_running /\ ~is_finished
    /\ visited # {} /\ algo_choice = "heap" /\ pq # <<>>

(* ------------------------- C11 ----------------------------------------- *)
\* C11: whatever state reset is called from, it leaves dist[start] = 0 and
\* every other distance infinite, every predecessor None, visited empty,
\* unvisited full, pq empty, current_node None and the engine Idle; so a
\* second reset leaves the state of the first.
C11_ResetState ==
    last_op = "reset" =>
        /\ dist[start_node] = 0
        /\ \A v \in Nodes(graph) \ {start_node} : dist[v] = Inf
        /\ \A v \in Nodes(graph) : prev[v] = None
        /\ visited = {}
        /\ unvisited = Nodes(graph)
        /\ pq = <<>>
        /\ current_node = None
        /\ ~is_running /\ ~is_finished
        /\ start_time = 0 /\ steps = 0
        /\ shown_path = <<>>
        /\ step_button = "disabled" /\ timing_label = ""
        /\ status_label = "Select an algorithm and press Start"

\* reset has been called after the selector was moved to linear scan
C11_Witness ==
    /\ last_op = "reset" /\ algo_choice = "lin"

RECURSIVE BoundedWalk(_, _, _)
BoundedWalk(pr, curr, n) ==
    IF curr = None \/ n = 0 THEN <<>>
    ELSE <<curr>> \o BoundedWalk(pr, pr[curr], n - 1)

HasEdge(g, u, v) == \E i \in DOMAIN g[u] : g[u][i][1] = v

C14_PolicyFixedAtStart ==
    [][(is_running /\ ~is_finished /\ last_op' # "reset") =>
        /\ (is_running' /\ ~is_finished') =>
              (pq' = <<>> \/ unvisited' = Nodes(graph))
        /\ last_op' = "step" =>
              (current_node' # current_node => current_node' \notin visited)]_vars

(* ------------------------- C15 ----------------------------------------- *)
Entries(q) == {q[i] : i \in DOMAIN q}

C19_SettledInOrder ==
    /\ current_node # None =>
          \A v \in visited : ~Less(dist[current_node], dist[v])
    /\ \A v \in visited : \A x \in Nodes(graph) \ visited : ~Less(dist[x], dist[v])
    /\ visited # {} => (start_node \in visited /\ dist[start_node] = 0)
    /\ Cardinality(visited) = 1 => current_node = start_node
    /\ (current_node = None) <=> (visited = {})

\* a heap-mode run has settled five nodes, two of them at the same distance
C19_Witness ==
    /\ is_running /\ ~is_finished /\ last_op = "step"
    /\ algo_choice = "heap" /\ Cardinality(visited) >= 5
    /\ \E v, x \in visited : v # x /\ dist[v] = dist[x]
====
